---- MODULE Spec2Model ----
(***************************************************************************)
(* A model of zpax: BasicNode (src/zpax/node.py), a Multi-Paxos node over  *)
(* publish/subscribe sockets.  Every handler of BasicNode is one operator  *)
(* on a "working record" w (the node's fields, the messages it published,  *)
(* the application callbacks it fired, the exception that is propagating)  *)
(* and one action that applies it.  publish() dispatches the message to    *)
(* the node's own subscribe handler before it returns, exactly as the      *)
(* source does, so a handler's effect includes the whole nested loopback.  *)
(*                                                                         *)
(* The paxos package (basic.Acceptor, basic.Learner, heartbeat.Proposer,   *)
(* multi.MultiPaxos) is imported by node.py but is not part of the source  *)
(* tree; it is modelled from sections 4.2 to 4.7 of the specification.     *)
(***************************************************************************)
EXTENDS Integers, Sequences, FiniteSets, TLC

VARIABLES
    node,        \* node_uid -> the fields of that BasicNode and of its MultiPaxos
    chan,        \* <<sender, subscriber>> -> the frames in flight on that connection, in order
    msgs,        \* every frame published so far
    cluster,     \* the deployment: the node_uids, their quorum_size, who is connected to whom
    events,      \* how many application calls, timer expiries and lost frames so far
    resolved,    \* node_uid -> the <<instance, value, value was proposed before>> of each
                 \* onProposalResolution
    proposed,    \* the values handed to a Proposer's set_proposal so far
    last,        \* the operation that made the last step, its callbacks and its exception
    store        \* key -> the row of table kv with that key (src/zpax/db.py)

vars == <<node, chan, msgs, cluster, events, resolved, proposed, last, store>>

----------------------------------------------------------------------------
(* Bounds of the model *)

MaxRound == 2        \* proposal rounds a proposer may start
MaxSeq == 2          \* proposeValue / slewSequenceNumber stop at this sequence number
MaxEvents == 3       \* application calls, timer expiries and lost frames in one run

MaxProposal == 2     \* proposal numbers of the key-value store

Uids == {1, 2, 3}
Keys == {"a", "b"}
Values == {"X", "Y"}

None == "None"       \* Python's None, for a value
NoId == <<0, 0>>     \* Python's None, for a proposal id (None sorts below every tuple)

----------------------------------------------------------------------------
(* ProposalID: (round, node_uid), ordered lexicographically *)

IdLess(a, b) == a[1] < b[1] \/ (a[1] = b[1] /\ a[2] < b[2])
IdGeq(a, b) == ~IdLess(a, b)

----------------------------------------------------------------------------
(* Construction *)

NoRetry == [state |-> "none", pid |-> NoId, value |-> None]
NoAccepted == [id |-> NoId, value |-> None]
NoRet == [ok |-> FALSE, pid |-> NoId, prev_id |-> NoId, value |-> None]

NewAcceptor == [promised_id |-> NoId, accepted_id |-> NoId, accepted_value |-> None]
NewLearner == [accepted |-> {}, final_id |-> NoId, final_value |-> None]
NewProposer ==
    [value |-> None, current_id |-> NoId, promises_rcvd |-> {},
     highest_accepted |-> NoAccepted, leader |-> FALSE, leader_proposal_id |-> NoId]

BasicNode(uid, q, seq) ==
    [node_uid |-> uid, quorum_size |-> q, sequence_number |-> seq,
     accept_retry |-> NoRetry, pulser_running |-> FALSE, poller_running |-> TRUE,
     pub_open |-> TRUE, sub_open |-> TRUE,
     instance_num |-> seq,
     proposer |-> NewProposer, acceptor |-> NewAcceptor, learner |-> NewLearner]

----------------------------------------------------------------------------
(* DB: the table kv (key text PRIMARY KEY, value text, proposal integer) *)

NoRow == [present |-> FALSE, value |-> None, proposal |-> 0]
Row(value, proposal) == [present |-> TRUE, value |-> value, proposal |-> proposal]

\* create_db: the table without rows.
create_db == [k \in Keys |-> NoRow]

DBReturn(st, ret, exc) == [store |-> st, ret |-> ret, exc |-> exc]

\* SELECT value FROM kv WHERE key=?
get_value(st, key) ==
    DBReturn(st, IF st[key].present THEN st[key].value ELSE None, None)

\* SELECT proposal FROM kv WH?ERE key=? : sqlite3 rejects the statement.
get_proposal(st, key) == DBReturn(st, None, "OperationalError")

\* UPDATE kv SET value=?, proposal=? WHERE key=? AND proposal < ? : changes the row
\* with that key, if there is one.
update_key(st, key, value, proposal_number) ==
    DBReturn(IF st[key].present /\ st[key].proposal < proposal_number
             THEN [st EXCEPT ![key] = Row(value, proposal_number)]
             ELSE st,
             None, None)

\* SELECT MAX(proposal) FROM kv : -1 stands for the None of an empty table.
get_last_proposal(st) ==
    LET ps == {st[k].proposal : k \in {j \in Keys : st[j].present}}
    IN DBReturn(st, IF ps = {} THEN -1 ELSE CHOOSE m \in ps : \A q \in ps : q <= m, None)

----------------------------------------------------------------------------
\* The working record of one handler run on node n.
W(n) ==
    [s |-> node[n], out |-> <<>>, ev |-> <<>>, exc |-> None, exc_arg |-> 0,
     ret |-> NoRet, prop |-> {}, mid |-> <<>>]

Ok(w) == w.exc = None
Raise(w, e) == [w EXCEPT !.exc = e]
RaiseWith(w, e, arg) == [w EXCEPT !.exc = e, !.exc_arg = arg]
\* An application callback fires; had is what set_proposal had been given in this
\* handler run by then.
Emit(w, cb, a, v) ==
    [w EXCEPT !.ev = Append(@, [cb |-> cb, a |-> a, v |-> v, had |-> w.prop])]
Return(w, r) == [w EXCEPT !.ret = r]

\* The handler has just acted on a socket or a timer: mid keeps the node as it is at
\* that point of the handler.
Mid(w) == [w EXCEPT !.mid = Append(@, w.s)]

\* A frame as publish builds it: every part is the JSON of a dict or a list, and the
\* header carries type, node_uid and seq_num.  json tells what json.loads makes of the
\* parts after 'zpax': "invalid" (not JSON), "empty" (there is no part), "scalar" (the
\* header is JSON but no container, e.g. 5 or null) or "object"; has_type, whether the
\* header holds the key 'type'.
Msg(w, type, pid, prev_id, value) ==
    [type |-> type, node_uid |-> w.s.node_uid, seq_num |-> w.s.sequence_number,
     pid |-> pid, prev_id |-> prev_id, value |-> value,
     json |-> "object", has_type |-> TRUE]

RECURSIVE _on_sub_received(_, _)

\* pub.send, then the node's own subscribe handler on the same frame, before
\* publish returns.
publish(w, m) ==
    IF Ok(w) THEN _on_sub_received([w EXCEPT !.out = Append(@, m)], m) ELSE w

----------------------------------------------------------------------------
(* Timers *)

\* DelayedCall.cancel(): raises on a call that already ran or was cancelled.
DelayedCall_cancel(w) ==
    CASE w.s.accept_retry.state = "pending" ->
            [w EXCEPT !.s.accept_retry.state = "cancelled"]
      [] w.s.accept_retry.state = "called" -> Raise(w, "AlreadyCalled")
      [] OTHER -> Raise(w, "AlreadyCancelled")

----------------------------------------------------------------------------
(* Leadership changes *)

\* Leadership lost without touching the timers.
_paxos_on_leadership_lost_timers_kept(w) == Emit(w, "onLeadershipLost", 0, None)

_paxos_on_leadership_lost(w) ==
    LET w1 == IF w.s.accept_retry.state # "none"
              THEN LET c == DelayedCall_cancel(w)
                   IN IF Ok(c) THEN [c EXCEPT !.s.accept_retry = NoRetry] ELSE c
              ELSE w
        w2 == IF Ok(w1) /\ w1.s.pulser_running
              THEN [w1 EXCEPT !.s.pulser_running = FALSE]
              ELSE w1
    IN IF Ok(w2) THEN Emit(w2, "onLeadershipLost", 0, None) ELSE w2

_paxos_on_leadership_change(w, prev_leader_uid, new_leader_uid) ==
    Emit(w, "onLeadershipChanged", new_leader_uid, None)

\* heartbeat.Proposer.recv_heartbeat
recv_heartbeat(w, leader_id) ==
    LET p == w.s.proposer IN
    IF ~IdGeq(leader_id, p.leader_proposal_id) THEN w
    ELSE LET w1 == [w EXCEPT !.s.proposer.leader_proposal_id = leader_id]
             w2 == IF p.leader /\ IdLess(p.current_id, leader_id)
                   THEN _paxos_on_leadership_lost(
                            [w1 EXCEPT !.s.proposer.leader = FALSE])
                   ELSE w1
         IN IF Ok(w2) /\ leader_id[2] # p.leader_proposal_id[2]
            THEN _paxos_on_leadership_change(w2, p.leader_proposal_id[2], leader_id[2])
            ELSE w2

_on_sub_paxos_heartbeat(w, m) ==
    LET w1 == recv_heartbeat(w, m.pid)
    IN IF Ok(w1) THEN Emit(w1, "onHeartbeat", m.node_uid, None) ELSE w1

_paxos_send_heartbeat(w, leader_proposal_id) ==
    publish(w, Msg(w, "paxos_heartbeat", leader_proposal_id, NoId, None))

\* heartbeat.Proposer.pulse
pulse(w) == _paxos_send_heartbeat(w, w.s.proposer.current_id)

_pulse_leader_heartbeat(w) == pulse(w)

\* LoopingCall.start(interval): refuses a running call, and calls at once.
_paxos_on_leadership_acquired(w) ==
    IF w.s.pulser_running THEN Raise(w, "AssertionError")
    ELSE LET w1 == _pulse_leader_heartbeat([w EXCEPT !.s.pulser_running = TRUE])
         IN IF Ok(w1) THEN Emit(w1, "onLeadershipAcquired", 0, None) ELSE w1

----------------------------------------------------------------------------
(* Resolution *)

_on_proposal_resolution(w, instance_num, value) ==
    LET w1 == IF w.s.accept_retry.state # "none"
              THEN LET c == DelayedCall_cancel(w)
                   IN IF Ok(c) THEN [c EXCEPT !.s.accept_retry = NoRetry] ELSE c
              ELSE w
    IN IF Ok(w1)
       THEN Emit([w1 EXCEPT !.s.sequence_number = instance_num + 1],
                 "onProposalResolution", instance_num, value)
       ELSE w1

\* multi.MultiPaxos: the next SingleInstance; leadership and the proposal round carry over.
next_instance(w, n) ==
    [w EXCEPT !.s.instance_num = n,
              !.s.proposer = [@ EXCEPT !.value = None, !.promises_rcvd = {},
                                       !.highest_accepted = NoAccepted],
              !.s.acceptor = NewAcceptor,
              !.s.learner = NewLearner]

\* multi.MultiPaxos.set_instance_number
set_instance_number(w, n) == next_instance(w, n)

\* multi.MultiPaxos.have_leadership
have_leadership(w) == w.s.proposer.leader

\* basic.Learner.recv_accepted
Learner_recv_accepted(l, from_uid, pid, value, q) ==
    IF l.final_id # NoId THEN l
    ELSE LET acc == l.accepted \cup {<<pid, from_uid>>}
         IN IF <<pid, from_uid>> \notin l.accepted
               /\ Cardinality({x \in acc : x[1] = pid}) = q
            THEN [accepted |-> acc, final_id |-> pid, final_value |-> value]
            ELSE [l EXCEPT !.accepted = acc]

\* multi.MultiPaxos.recv_accepted: on resolution, report upward, then advance.
mpax_recv_accepted(w, seq, from_uid, pid, value) ==
    IF seq # w.s.instance_num THEN w
    ELSE LET l == Learner_recv_accepted(w.s.learner, from_uid, pid, value, w.s.quorum_size)
             w1 == [w EXCEPT !.s.learner = l]
         IN IF w.s.learner.final_id = NoId /\ l.final_id # NoId
            THEN LET w2 == _on_proposal_resolution(w1, seq, l.final_value)
                 IN IF Ok(w2) THEN next_instance(w2, seq + 1) ELSE w2
            ELSE w1

----------------------------------------------------------------------------
(* Paxos messaging *)

_check_sequence(w, header) ==
    LET seq == header.seq_num
        w1 == IF seq > w.s.sequence_number
              THEN Emit(w, "onBehindInSequence", 0, None)
              ELSE IF seq < w.s.sequence_number
                   THEN Emit(w, "onOtherNodeBehindInSequence", header.node_uid, None)
                   ELSE w
    IN Return(w1, [NoRet EXCEPT !.ok = (seq = w.s.sequence_number)])

_on_sub_paxos_accepted(w, m) ==
    LET c == _check_sequence(w, m)
    IN IF c.ret.ok
       THEN mpax_recv_accepted(c, m.seq_num, m.node_uid, m.pid, m.value)
       ELSE c

\* basic.Acceptor.recv_accept_request through multi.MultiPaxos
mpax_recv_accept_request(w, seq, pid, value) ==
    IF seq = w.s.instance_num /\ IdGeq(pid, w.s.acceptor.promised_id)
    THEN Return([w EXCEPT !.s.acceptor = [promised_id |-> pid, accepted_id |-> pid,
                                           accepted_value |-> value]],
                [ok |-> TRUE, pid |-> pid, prev_id |-> NoId, value |-> value])
    ELSE Return(w, NoRet)

_on_sub_paxos_accept(w, m) ==
    LET c == _check_sequence(w, m)
    IN IF c.ret.ok
       THEN LET w1 == mpax_recv_accept_request(c, m.seq_num, m.pid, m.value)
            IN IF w1.ret.ok
               THEN publish(w1, Msg(w1, "paxos_accepted", w1.ret.pid, NoId, w1.ret.value))
               ELSE w1
       ELSE c

_paxos_send_accept(w, proposal_id, proposal_value) ==
    IF have_leadership(w)
       /\ (w.s.accept_retry.state = "none" \/ w.s.accept_retry.state # "pending")
    THEN LET w1 == publish(w, Msg(w, "paxos_accept", proposal_id, NoId, proposal_value))
         IN IF Ok(w1)
            THEN [w1 EXCEPT !.s.accept_retry =
                     [state |-> "pending", pid |-> proposal_id, value |-> proposal_value]]
            ELSE w1
    ELSE w

\* heartbeat.Proposer.recv_promise through multi.MultiPaxos: at a quorum of promises
\* the proposer leads and returns its proposal id and value
mpax_recv_promise(w, seq, from_uid, pid, prev_id, prev_value) ==
    LET p == w.s.proposer IN
    IF seq # w.s.instance_num \/ pid # p.current_id \/ from_uid \in p.promises_rcvd
    THEN Return(w, NoRet)
    ELSE LET got == p.promises_rcvd \cup {from_uid}
             ha == IF prev_id # NoId
                      /\ (p.highest_accepted.id = NoId
                          \/ IdLess(p.highest_accepted.id, prev_id))
                   THEN [id |-> prev_id, value |-> prev_value]
                   ELSE p.highest_accepted
             w1 == [w EXCEPT !.s.proposer.promises_rcvd = got,
                             !.s.proposer.highest_accepted = ha]
         IN IF Cardinality(got) = w.s.quorum_size
            THEN LET v == IF ha.id # NoId THEN ha.value ELSE p.value
                     w2 == [w1 EXCEPT !.s.proposer.value = v,
                                      !.s.proposer.leader = TRUE]
                     w3 == IF p.leader THEN w2 ELSE _paxos_on_leadership_acquired(w2)
                 IN IF Ok(w3)
                    THEN Return(w3, [ok |-> TRUE, pid |-> p.current_id,
                                     prev_id |-> NoId, value |-> v])
                    ELSE w3
            ELSE Return(w1, NoRet)

\* _on_sub_paxos_promise without "r[1] is not None": a leader with no value sends one.
_on_sub_paxos_promise_any_value(w, m) ==
    LET c == _check_sequence(w, m)
    IN IF c.ret.ok
       THEN LET w1 == mpax_recv_promise(c, m.seq_num, m.node_uid, m.pid, m.prev_id, m.value)
            IN IF Ok(w1) /\ w1.ret.ok
               THEN _paxos_send_accept(w1, w1.ret.pid, w1.ret.value)
               ELSE w1
       ELSE c

_on_sub_paxos_promise(w, m) ==
    LET c == _check_sequence(w, m)
    IN IF c.ret.ok
       THEN LET w1 == mpax_recv_promise(c, m.seq_num, m.node_uid, m.pid, m.prev_id, m.value)
            IN IF Ok(w1) /\ w1.ret.ok /\ w1.ret.value # None
               THEN _paxos_send_accept(w1, w1.ret.pid, w1.ret.value)
               ELSE w1
       ELSE c

\* basic.Acceptor.recv_prepare through multi.MultiPaxos
mpax_recv_prepare(w, seq, pid) ==
    IF seq = w.s.instance_num /\ IdGeq(pid, w.s.acceptor.promised_id)
    THEN Return([w EXCEPT !.s.acceptor.promised_id = pid],
                [ok |-> TRUE, pid |-> pid, prev_id |-> w.s.acceptor.accepted_id,
                 value |-> w.s.acceptor.accepted_value])
    ELSE Return(w, NoRet)

_on_sub_paxos_prepare(w, m) ==
    LET c == _check_sequence(w, m)
    IN IF c.ret.ok
       THEN LET w1 == mpax_recv_prepare(c, m.seq_num, m.pid)
            IN IF w1.ret.ok
               THEN publish(w1, Msg(w1, "paxos_promise", w1.ret.pid, w1.ret.prev_id,
                                    w1.ret.value))
               ELSE w1
       ELSE c

_paxos_send_prepare(w, proposal_id) ==
    publish(w, Msg(w, "paxos_prepare", proposal_id, NoId, None))

\* The round heartbeat.Proposer.poll_liveness starts when the leader is silent.
next_round(p) ==
    (IF p.current_id[1] > p.leader_proposal_id[1]
     THEN p.current_id[1] ELSE p.leader_proposal_id[1]) + 1

\* heartbeat.Proposer.poll_liveness, the liveness window having passed in silence
poll_liveness(w) ==
    IF w.s.proposer.leader THEN w
    ELSE LET id == <<next_round(w.s.proposer), w.s.node_uid>>
         IN _paxos_send_prepare(
                [w EXCEPT !.s.proposer.current_id = id,
                          !.s.proposer.promises_rcvd = {},
                          !.s.proposer.highest_accepted = NoAccepted], id)

_poll_heartbeat(w) == poll_liveness(w)

----------------------------------------------------------------------------
(* Value proposals *)

\* heartbeat.Proposer.set_proposal through multi.MultiPaxos: latch, and if leading, send
mpax_set_proposal(w, seq, value) ==
    IF seq # w.s.instance_num THEN w
    ELSE LET w1 == [w EXCEPT !.prop = @ \cup {value}]
         IN IF w.s.proposer.value # None THEN w1
            ELSE LET w2 == [w1 EXCEPT !.s.proposer.value = value]
                 IN IF w2.s.proposer.leader
                    THEN _paxos_send_accept(w2, w2.s.proposer.current_id, value)
                    ELSE w2

\* _on_sub_value_proposal that drops the frame.
_on_sub_value_proposal_dropped(w, header) == w

_on_sub_value_proposal(w, header) ==
    IF header.seq_num = w.s.sequence_number /\ w.s.acceptor.accepted_value = None
    THEN mpax_set_proposal(w, w.s.sequence_number, header.value)
    ELSE w

\* getattr(self, '_on_sub_' + type, None) finds the six handlers and, for the type
\* "received", _on_sub_received itself, which cannot take the decoded parts.
Dispatch(w, m) ==
    CASE m.type = "value_proposal" -> _on_sub_value_proposal(w, m)
      [] m.type = "paxos_heartbeat" -> _on_sub_paxos_heartbeat(w, m)
      [] m.type = "paxos_prepare" -> _on_sub_paxos_prepare(w, m)
      [] m.type = "paxos_promise" -> _on_sub_paxos_promise(w, m)
      [] m.type = "paxos_accept" -> _on_sub_paxos_accept(w, m)
      [] m.type = "paxos_accepted" -> _on_sub_paxos_accepted(w, m)
      [] m.type = "received" -> Raise(w, "TypeError")
      [] OTHER -> w

_on_sub_received(w, m) ==
    IF m.json = "invalid" THEN w
    ELSE IF m.json = "empty" THEN Raise(w, "IndexError")
    ELSE IF m.json = "scalar" THEN Raise(w, "TypeError")
    ELSE IF ~m.has_type THEN w
    ELSE Dispatch(w, m)

\* proposeValue with the value checks ahead of the sequence check.
proposeValue_value_checks_first(w, sequence_number, value) ==
    IF w.s.proposer.value # None THEN Raise(w, "ValueAlreadyProposed")
    ELSE IF w.s.acceptor.accepted_value # None THEN Raise(w, "ValueAlreadyProposed")
    ELSE IF sequence_number # w.s.sequence_number
    THEN RaiseWith(w, "SequenceMismatch", w.s.sequence_number)
    ELSE LET w1 == publish(w, Msg(w, "value_proposal", NoId, NoId, value))
         IN IF Ok(w1) THEN mpax_set_proposal(w1, w1.s.sequence_number, value) ELSE w1

proposeValue(w, sequence_number, value) ==
    IF sequence_number # w.s.sequence_number
    THEN RaiseWith(w, "SequenceMismatch", w.s.sequence_number)
    ELSE IF w.s.proposer.value # None THEN Raise(w, "ValueAlreadyProposed")
    ELSE IF w.s.acceptor.accepted_value # None THEN Raise(w, "ValueAlreadyProposed")
    ELSE LET w1 == publish(w, Msg(w, "value_proposal", NoId, NoId, value))
         IN IF Ok(w1) THEN mpax_set_proposal(w1, w1.s.sequence_number, value) ELSE w1

\* slewSequenceNumber without its assertion.
slewSequenceNumber_unchecked(w, new_sequence_number) ==
    LET w1 == [w EXCEPT !.s.sequence_number = new_sequence_number]
    IN IF w1.s.proposer.leader THEN Raise(w1, "AttributeError")
       ELSE set_instance_number(w1, w1.s.sequence_number)

\* Line 184 calls self.paxos_on_leadership_lost, a name BasicNode does not define.
slewSequenceNumber(w, new_sequence_number) ==
    IF ~(new_sequence_number > w.s.sequence_number) THEN Raise(w, "AssertionError")
    ELSE LET w1 == [w EXCEPT !.s.sequence_number = new_sequence_number]
         IN IF w1.s.proposer.leader THEN Raise(w1, "AttributeError")
            ELSE set_instance_number(w1, w1.s.sequence_number)

shutdown(w) ==
    LET w0 == Emit(w, "onShutdown", 0, None)
        w1 == IF w0.s.accept_retry.state # "none" /\ w0.s.accept_retry.state = "pending"
              THEN Mid(DelayedCall_cancel(w0))
              ELSE w0
        w2 == Mid([w1 EXCEPT !.s.pub_open = FALSE])
        w3 == Mid([w2 EXCEPT !.s.sub_open = FALSE])
        w4 == IF w3.s.poller_running
              THEN Mid([w3 EXCEPT !.s.poller_running = FALSE])
              ELSE w3
    IN IF w4.s.pulser_running
       THEN Mid([w4 EXCEPT !.s.pulser_running = FALSE])
       ELSE w4

\* reactor.callLater's call comes due: the DelayedCall is marked called, then run.
accept_retry_fires(w) ==
    _paxos_send_accept([w EXCEPT !.s.accept_retry.state = "called"],
                       w.s.accept_retry.pid, w.s.accept_retry.value)

----------------------------------------------------------------------------
(* The state machine *)

Resolutions(w) ==
    LET F[i \in 0..Len(w.ev)] ==
            IF i = 0 THEN <<>>
            ELSE IF w.ev[i].cb = "onProposalResolution"
                 THEN Append(F[i - 1], w.ev[i])
                 ELSE F[i - 1]
    IN F[Len(w.ev)]

NoLast == [op |-> "init", n |-> 0, a |-> 0, v |-> None, from |-> 0,
           exc |-> None, exc_arg |-> 0, ev |-> <<>>, out |-> <<>>, mid |-> <<>>]

\* Node n ran one handler to completion (or to the exception it raised); ch is what
\* the connections held when it started.  pub.send hands every frame to every
\* connected subscriber.
Commit(n, w, ch, op, a, v, from) ==
    /\ node' = [node EXCEPT ![n] = w.s]
    /\ chan' = [l \in DOMAIN ch |-> IF l[1] = n THEN ch[l] \o w.out ELSE ch[l]]
    /\ msgs' = msgs \cup {w.out[i] : i \in 1..Len(w.out)}
    /\ resolved' = [resolved EXCEPT ![n] = @ \o
           [i \in 1..Len(Resolutions(w)) |->
               LET r == Resolutions(w)[i]
               IN <<r.a, r.v, r.v \in proposed \cup r.had>>]]
    /\ proposed' = proposed \cup w.prop
    /\ last' = IF cluster.observe
               THEN [op |-> op, n |-> n, a |-> a, v |-> v, from |-> from,
                     exc |-> w.exc, exc_arg |-> w.exc_arg, ev |-> w.ev, out |-> w.out,
                     mid |-> w.mid]
               ELSE NoLast
    /\ UNCHANGED <<cluster, store>>

Event == events < cluster.events /\ events' = events + 1

InitCluster(c) ==
    /\ cluster = c
    /\ node = [n \in c.members |-> BasicNode(n, c.quorum_size, 0)]
    /\ chan = [l \in c.links |-> <<>>]
    /\ msgs = {}
    /\ events = 0
    /\ resolved = [n \in c.members |-> <<>>]
    /\ proposed = {}
    /\ last = NoLast
    /\ store = create_db

\* The application calls proposeValue on a node it has not shut down.
Propose(n, seq, v) ==
    /\ n \in cluster.clients
    /\ node[n].pub_open
    /\ node[n].sequence_number < MaxSeq
    /\ Event
    /\ Commit(n, proposeValue(W(n), seq, v), chan, "proposeValue", seq, v, n)

Slew(n, seq) ==
    /\ Event
    /\ Commit(n, slewSequenceNumber(W(n), seq), chan, "slewSequenceNumber", seq, None, n)

Poll(n) ==
    /\ n \in cluster.pollers
    /\ node[n].poller_running
    /\ ~node[n].proposer.leader
    /\ next_round(node[n].proposer) <= MaxRound
    /\ Event
    /\ Commit(n, _poll_heartbeat(W(n)), chan, "poll", 0, None, n)

Pulse(n) ==
    /\ node[n].pulser_running
    /\ Event
    /\ Commit(n, _pulse_leader_heartbeat(W(n)), chan, "pulse", 0, None, n)

RetryFires(n) ==
    /\ node[n].accept_retry.state = "pending"
    /\ Event
    /\ Commit(n, accept_retry_fires(W(n)), chan, "retry", 0, None, n)

\* The subscribe socket of n hands over the next frame of its connection to sender.
Deliver(n, sender) ==
    /\ <<sender, n>> \in cluster.links
    /\ node[n].sub_open
    /\ chan[<<sender, n>>] # <<>>
    /\ UNCHANGED events
    /\ LET m == Head(chan[<<sender, n>>])
       IN Commit(n, _on_sub_received(W(n), m),
                 [chan EXCEPT ![<<sender, n>>] = Tail(@)],
                 m.type, m.seq_num, m.value, m.node_uid)

\* The transport drops the next frame of a connection.
Lose(n, sender) ==
    /\ cluster.lossy
    /\ <<sender, n>> \in cluster.links
    /\ chan[<<sender, n>>] # <<>>
    /\ Event
    /\ chan' = [chan EXCEPT ![<<sender, n>>] = Tail(@)]
    /\ last' = IF cluster.observe THEN [NoLast EXCEPT !.op = "lose", !.n = n] ELSE NoLast
    /\ UNCHANGED <<node, msgs, cluster, resolved, proposed, store>>

\* The application shuts the node down, once.
Shutdown(n) ==
    /\ node[n].pub_open
    /\ Event
    /\ Commit(n, shutdown(W(n)), chan, "shutdown", 0, None, n)

\* A frame some other publisher sent under the 'zpax' prefix.
Frame(json, has_type, type) ==
    [type |-> type, node_uid |-> 0, seq_num |-> 0, pid |-> NoId, prev_id |-> NoId,
     value |-> None, json |-> json, has_type |-> has_type]

TypeStrings == {"", "bogus", "received", "PAXOS_ACCEPT"}

Malformed ==
    {Frame("invalid", FALSE, ""), Frame("empty", FALSE, ""),
     Frame("scalar", FALSE, ""), Frame("object", FALSE, "")}

RawFrames == Malformed \cup {Frame("object", TRUE, t) : t \in TypeStrings}

\* The subscribe socket of n hands over a frame that no BasicNode built.
Inject(n, f) ==
    /\ node[n].sub_open
    /\ Event
    /\ Commit(n, _on_sub_received(W(n), f), chan, "inject", 0, f.type, 0)

Next ==
    \/ \E n \in cluster.members, seq \in 0..MaxSeq, v \in Values : Propose(n, seq, v)
    \/ \E n \in cluster.members, seq \in 0..MaxSeq : Slew(n, seq)
    \/ \E n \in cluster.members : Poll(n)
    \/ \E n \in cluster.members : Pulse(n)
    \/ \E n \in cluster.members : RetryFires(n)
    \/ \E n, sender \in cluster.members : Deliver(n, sender)
    \/ \E n, sender \in cluster.members : Lose(n, sender)

Others(ms) == {l \in ms \X ms : l[1] # l[2]}

\* Two nodes, quorum_size 2, over a lossy transport: every operation, each step
\* observed through last.
Init ==
    InitCluster([members |-> {1, 2}, quorum_size |-> 2, observe |-> TRUE, lossy |-> TRUE,
                 pollers |-> {1, 2}, clients |-> {1, 2}, links |-> Others({1, 2}),
                 events |-> MaxEvents])

Spec == Init /\ [][Next]_vars

----------------------------------------------------------------------------
(* The single-node cluster: quorum_size 1, nobody to talk to *)

SingleEvents == 5

InitSingle ==
    InitCluster([members |-> {1}, quorum_size |-> 1, observe |-> TRUE, lossy |-> FALSE,
                 pollers |-> {1}, clients |-> {1}, links |-> {},
                 events |-> SingleEvents])

NextSingle ==
    \/ \E n \in cluster.members, seq \in 0..MaxSeq, v \in Values : Propose(n, seq, v)
    \/ \E n \in cluster.members, seq \in 0..MaxSeq : Slew(n, seq)
    \/ \E n \in cluster.members : Poll(n)
    \/ \E n \in cluster.members : Pulse(n)
    \/ \E n \in cluster.members : RetryFires(n)

SpecSingle == InitSingle /\ [][NextSingle]_vars

----------------------------------------------------------------------------
(* Two would-be leaders that cannot hear each other *)

DuelEvents == 5

\* Nodes 1 and 2 both reach node 3 but not each other; the timers of the run are the
\* two liveness windows that make 1 and 2 stand for leadership.
InitDuel ==
    InitCluster([members |-> Uids, quorum_size |-> 2, observe |-> FALSE, lossy |-> FALSE,
                 pollers |-> {1, 2}, clients |-> {1, 2},
                 links |-> {<<1, 3>>, <<3, 1>>, <<2, 3>>, <<3, 2>>},
                 events |-> DuelEvents])

NextDuel ==
    \/ \E n \in cluster.members, seq \in 0..MaxSeq, v \in Values : Propose(n, seq, v)
    \/ \E n \in cluster.members : Poll(n)
    \/ \E n, sender \in cluster.members : Deliver(n, sender)

SpecDuel == InitDuel /\ [][NextDuel]_vars

\* C1 (Agreement): whenever the learners of two nodes have both resolved an
\* instance n, each firing onProposalResolution(n, v), they resolved it to the same
\* value v, for every n and every pair of nodes under a majority quorum_size.
Agreement ==
    \A a, b \in cluster.members :
        \A i \in 1..Len(resolved[a]) : \A j \in 1..Len(resolved[b]) :
            resolved[a][i][1] = resolved[b][j][1] => resolved[a][i][2] = resolved[b][j][2]

----------------------------------------------------------------------------
(* Properties of the two-node cluster *)

\* C2 (Value integrity): every value a node resolved an instance to had been handed
\* to set_proposal of some node's Proposer before that resolution, and is not None.
ValueIntegrity ==
    \A n \in cluster.members : \A i \in 1..Len(resolved[n]) :
        resolved[n][i][3] /\ resolved[n][i][2] # None

\* Some node has resolved an instance to a proposed value.
ValueResolved ==
    \E n \in cluster.members : \E i \in 1..Len(resolved[n]) :
        resolved[n][i][2] \in Values

Fired(ev, cb, a) == \E i \in 1..Len(ev) : ev[i].cb = cb /\ ev[i].a = a

\* What proposeValue(seq, value) must leave alone when it refuses.
Refused(n) ==
    /\ last'.out = <<>>
    /\ last'.ev = <<>>
    /\ node'[n] = node[n]
    /\ chan' = chan
    /\ msgs' = msgs

\* C4: proposeValue(seq, value) with seq other than the node's sequence_number raises
\* SequenceMismatch carrying the node's sequence_number, publishes nothing and leaves
\* the node as it was, whether or not a value is already latched or accepted.
SequenceMismatchRejected ==
    [][\A n \in cluster.members :
          (last'.op = "proposeValue" /\ last'.n = n /\ last'.a # node[n].sequence_number)
              => /\ last'.exc = "SequenceMismatch"
                 /\ last'.exc_arg = node[n].sequence_number
                 /\ Refused(n)]_vars

\* proposeValue has just raised SequenceMismatch on a node whose proposer holds a value.
MismatchOverLatchedValue ==
    /\ last.op = "proposeValue"
    /\ last.exc = "SequenceMismatch"
    /\ last.exc_arg = node[last.n].sequence_number
    /\ node[last.n].proposer.value # None

InFlight(s) == s.proposer.value # None \/ s.acceptor.accepted_value # None

\* C5: proposeValue(seq, value) with seq equal to the node's sequence_number raises
\* ValueAlreadyProposed, publishing nothing and changing nothing, exactly when the
\* proposer has a latched value or the acceptor has accepted one; after a call that
\* succeeded and whose instance is still open a second call would be refused; and
\* the call is not refused for an instance nobody published a value_proposal for.
ValueAlreadyProposedRejected ==
    [][\A n \in cluster.members :
          (last'.op = "proposeValue" /\ last'.n = n /\ last'.a = node[n].sequence_number)
              => /\ (last'.exc = "ValueAlreadyProposed") <=> InFlight(node[n])
                 /\ InFlight(node[n]) => Refused(n)
                 /\ (last'.exc = None /\ node'[n].sequence_number = last'.a)
                        => InFlight(node'[n])
                 /\ (\A m \in msgs : ~(m.type = "value_proposal" /\ m.seq_num = last'.a))
                        => last'.exc # "ValueAlreadyProposed"]_vars

\* C7: slewSequenceNumber(n), n above the sequence_number, on a node that leads,
\* raises nothing and drops leadership: no accept retry stays pending, the pulser is
\* stopped, onLeadershipLost fires, and sequence_number and the MultiPaxos instance
\* number are both n.
SlewDropsLeadership ==
    [][\A n \in cluster.members :
          (/\ last'.op = "slewSequenceNumber" /\ last'.n = n
           /\ last'.a > node[n].sequence_number
           /\ node[n].proposer.leader)
              => /\ last'.exc = None
                 /\ node'[n].accept_retry.state # "pending"
                 /\ ~node'[n].pulser_running
                 /\ Fired(last'.ev, "onLeadershipLost", 0)
                 /\ node'[n].sequence_number = last'.a
                 /\ node'[n].instance_num = last'.a]_vars

PaxosTypes ==
    {"paxos_prepare", "paxos_promise", "paxos_accept", "paxos_accepted", "paxos_heartbeat"}

\* C8: a delivered frame of a Paxos type whose seq_num is above the node's
\* sequence_number fires onBehindInSequence, and one whose seq_num is below it fires
\* onOtherNodeBehindInSequence with the sender's node_uid.
SequenceSignalled ==
    [][\A n \in cluster.members :
          (last'.op \in PaxosTypes /\ last'.n = n)
              => /\ last'.a > node[n].sequence_number
                        => Fired(last'.ev, "onBehindInSequence", 0)
                 /\ last'.a < node[n].sequence_number
                        => Fired(last'.ev, "onOtherNodeBehindInSequence", last'.from)]_vars

\* C9 (Sequence monotonicity): a node's sequence_number never decreases; it changes
\* only when the node resolves its current instance n, to n + 1, or by
\* slewSequenceNumber(m) with m above it, to m; slewSequenceNumber(m) with m not
\* above it leaves it unchanged.
SequenceMonotonic ==
    [][\A n \in cluster.members :
          LET old == node[n].sequence_number
              new == node'[n].sequence_number
          IN /\ new >= old
             /\ new # old =>
                   \/ /\ last'.n = n
                      /\ Len(resolved'[n]) = Len(resolved[n]) + 1
                      /\ resolved'[n][Len(resolved'[n])][1] = old
                      /\ new = old + 1
                   \/ /\ last'.op = "slewSequenceNumber" /\ last'.n = n
                      /\ last'.a > old
                      /\ new = last'.a
             /\ (last'.op = "slewSequenceNumber" /\ last'.n = n /\ ~(last'.a > old))
                   => new = old]_vars

\* A node that resolved an instance has then been slewed further.
ResolvedThenSlewed ==
    /\ last.op = "slewSequenceNumber"
    /\ last.exc = None
    /\ resolved[last.n] # <<>>
    /\ node[last.n].sequence_number = last.a

----------------------------------------------------------------------------
(* Properties of the single-node cluster *)

\* C3: on a node with quorum_size 1 that leads at sequence number n with no value
\* in flight, proposeValue(n, v) fires onProposalResolution(n, v) exactly once
\* before it returns and returns with sequence_number n + 1; and while nobody has
\* called proposeValue for the node's current instance, no step resolves an instance,
\* at the callback or at the Learner.
SingleNodeResolution ==
    [][\A n \in cluster.members :
          /\ (/\ last'.op = "proposeValue" /\ last'.n = n
              /\ last'.a = node[n].sequence_number
              /\ node[n].quorum_size = 1
              /\ node[n].proposer.leader
              /\ ~InFlight(node[n]))
                 => /\ last'.exc = None
                    /\ Len(Resolutions(last')) = 1
                    /\ Fired(last'.ev, "onProposalResolution", last'.a)
                    /\ resolved'[n][Len(resolved'[n])][2] = last'.v
                    /\ node'[n].sequence_number = last'.a + 1
          /\ (/\ last'.op # "proposeValue"
              /\ \A m \in msgs : ~(/\ m.type = "value_proposal"
                                    /\ m.seq_num = node[n].sequence_number))
                 => /\ resolved'[n] = resolved[n]
                    /\ node[n].learner.final_id = NoId
                           => node'[n].learner.final_id = NoId]_vars

\* C6: when a step in which a node resolved an instance is over, that node has no
\* accept retry pending.
RetryCancelledOnResolution ==
    [][\A n \in cluster.members :
          Len(resolved'[n]) > Len(resolved[n])
              => node'[n].accept_retry.state # "pending"]_vars

----------------------------------------------------------------------------
(* Three connected nodes, no loss, one client call *)

LiveEvents == 3

InitLive ==
    InitCluster([members |-> Uids, quorum_size |-> 2, observe |-> FALSE, lossy |-> FALSE,
                 pollers |-> {1}, clients |-> Uids, links |-> Others(Uids),
                 events |-> LiveEvents])

\* The one proposeValue call of the run that gets past its checks.
ProposeOnce(n, seq, v) ==
    /\ \A m \in msgs : m.type # "value_proposal"
    /\ Propose(n, seq, v)

NextLive ==
    \/ \E n \in cluster.members, seq \in 0..MaxSeq, v \in Values : ProposeOnce(n, seq, v)
    \/ \E n \in cluster.members : Poll(n)
    \/ \E n \in cluster.members : Pulse(n)
    \/ \E n \in cluster.members : RetryFires(n)
    \/ \E n, sender \in cluster.members : Deliver(n, sender)

\* A connected subscribe socket goes on handing over the frames queued for it: weak
\* fairness of Deliver on every connection, written out, Deliver(n, sender) being
\* enabled exactly when chan[<<sender, n>>] holds a frame.
SpecLive ==
    /\ InitLive
    /\ [][NextLive]_vars
    /\ \A l \in Others(Uids) :
           \/ []<>(chan[l] = <<>>)
           \/ []<><<Deliver(l[2], l[1])>>_vars

----------------------------------------------------------------------------
(* Two nodes that also receive frames of foreign publishers and are shut down *)

NextFrames ==
    \/ \E n \in cluster.members, seq \in 0..MaxSeq, v \in Values : Propose(n, seq, v)
    \/ \E n \in cluster.members, seq \in 0..MaxSeq : Slew(n, seq)
    \/ \E n \in cluster.members : Poll(n)
    \/ \E n \in cluster.members : Pulse(n)
    \/ \E n \in cluster.members : RetryFires(n)
    \/ \E n, sender \in cluster.members : Deliver(n, sender)
    \/ \E n, sender \in cluster.members : Lose(n, sender)
    \/ \E n \in cluster.members, f \in RawFrames : Inject(n, f)
    \/ \E n \in cluster.members : Shutdown(n)

SpecFrames == Init /\ [][NextFrames]_vars

\* What a dropped frame leaves behind: nothing.
Dropped(n) ==
    /\ last'.exc = None
    /\ last'.ev = <<>>
    /\ last'.out = <<>>
    /\ node' = node
    /\ chan' = chan
    /\ msgs' = msgs

\* C11: a received frame that fails decoding, or whose header has no type field, is
\* dropped: no callback fires, nothing is published, no node changes and no exception
\* leaves the subscribe handler.
MalformedDropped ==
    [][\A n \in cluster.members, f \in Malformed : Inject(n, f) => Dropped(n)]_vars

\* C12: a received frame whose type is none of the six recognized ones invokes no
\* handler: nothing fires, nothing is published, no node changes, nothing is raised,
\* whatever the type string.
UnknownTypeDropped ==
    [][\A n \in cluster.members, t \in TypeStrings :
          Inject(n, Frame("object", TRUE, t)) => Dropped(n)]_vars

TimersStopped(s) ==
    /\ ~s.poller_running
    /\ ~s.pulser_running
    /\ s.accept_retry.state # "pending"

\* C13 (Shutdown ordering): at no point of shutdown, and not when it is over, is the
\* publish or the subscribe socket closed while the liveness poller or the leader
\* pulser is running or an accept retry is pending.
ShutdownOrdering ==
    [][\A n \in cluster.members :
          (last'.op = "shutdown" /\ last'.n = n)
              => /\ \A i \in 1..Len(last'.mid) :
                        (~last'.mid[i].pub_open \/ ~last'.mid[i].sub_open)
                            => TimersStopped(last'.mid[i])
                 /\ (~node'[n].pub_open \/ ~node'[n].sub_open)
                        => TimersStopped(node'[n])]_vars

----------------------------------------------------------------------------
(* The key-value store *)

\* One call on DB: r is what it returns and what it leaves in the table.
DBCall(op, a, v, r) ==
    /\ store' = r.store
    /\ last' = [NoLast EXCEPT !.op = op, !.a = a, !.v = v, !.exc = r.exc]
    /\ UNCHANGED <<node, chan, msgs, cluster, events, resolved, proposed>>

UpdateKey(key, value, proposal_number) ==
    DBCall("update_key", proposal_number, value,
           update_key(store, key, value, proposal_number))

GetValue(key) == DBCall("get_value", 0, get_value(store, key).ret, get_value(store, key))

GetProposal(key) == DBCall("get_proposal", 0, None, get_proposal(store, key))

GetLastProposal ==
    DBCall("get_last_proposal", get_last_proposal(store).ret, None,
           get_last_proposal(store))

Rows == {NoRow} \cup {Row(v, p) : v \in Values, p \in 0..MaxProposal}

\* DB(fn) on a new file or on one that already holds rows.
InitStore ==
    /\ cluster = [members |-> {}, quorum_size |-> 1, observe |-> TRUE, lossy |-> FALSE,
                  pollers |-> {}, clients |-> {}, links |-> {}, events |-> 0]
    /\ node = [n \in {} |-> BasicNode(n, 1, 0)]
    /\ chan = [l \in {} |-> <<>>]
    /\ msgs = {}
    /\ events = 0
    /\ resolved = [n \in {} |-> <<>>]
    /\ proposed = {}
    /\ last = NoLast
    /\ store \in [Keys -> Rows]

NextStore ==
    \/ \E k \in Keys, v \in Values, p \in 0..MaxProposal : UpdateKey(k, v, p)
    \/ \E k \in Keys : GetValue(k)
    \/ \E k \in Keys : GetProposal(k)
    \/ GetLastProposal

SpecStore == InitStore /\ [][NextStore]_vars

\* C14 (Store commit): update_key(key, value, proposal_number) writes the row
\* (key, value, proposal_number) exactly when the key has no row or its row's
\* proposal is below proposal_number, and otherwise changes nothing; no stored
\* proposal decreases; and a key that has a row can be read back, value and proposal.
StoreCommit ==
    [][\A k \in Keys, v \in Values, p \in 0..MaxProposal :
          UpdateKey(k, v, p)
              => /\ store' = IF ~store[k].present \/ store[k].proposal < p
                             THEN [store EXCEPT ![k] = Row(v, p)]
                             ELSE store
                 /\ \A j \in Keys :
                        store[j].present
                            => store'[j].present /\ store'[j].proposal >= store[j].proposal
                 /\ store'[k].present
                        => /\ get_value(store', k).ret = store'[k].value
                           /\ get_proposal(store', k).exc = None
                           /\ get_proposal(store', k).ret = store'[k].proposal]_vars

----------------------------------------------------------------------------
\* The Paxos state of a node: its proposer (with leader_proposal_id and leadership),
\* its acceptor and its learner.
PaxosState(s) == <<s.proposer, s.acceptor, s.learner>>

\* C15 (Only equal-sequence messages reach Paxos state): a delivered frame of a Paxos
\* type, paxos_heartbeat included, whose seq_num differs from the node's
\* sequence_number leaves the node's proposer, acceptor and learner as they were and
\* publishes nothing.
EqualSequenceOnly ==
    [][\A n \in cluster.members :
          (last'.op \in PaxosTypes /\ last'.n = n /\ last'.a # node[n].sequence_number)
              => /\ PaxosState(node'[n]) = PaxosState(node[n])
                 /\ last'.out = <<>>]_vars

----------------------------------------------------------------------------
CancelErrors == {"AlreadyCalled", "AlreadyCancelled"}

\* C16 (Cancelling the accept retry is idempotent): no operation of a node ends in
\* the error of cancelling a timer that already fired or was already cancelled.
CancelNeverRaises == last.exc \notin CancelErrors

----------------------------------------------------------------------------
\* C17 (sequence_number mirrors MultiPaxos): between two operations, a node's
\* sequence_number equals the current instance number of its MultiPaxos.
SequenceMirrorsInstance ==
    \A n \in cluster.members : node[n].sequence_number = node[n].instance_num

----------------------------------------------------------------------------
LeaderOnlyTypes == {"paxos_heartbeat", "paxos_accept"}

Published(out, types) == {i \in 1..Len(out) : out[i].type \in types}

\* C18 (Heartbeats and accepts only while leader): an operation of a node that is
\* not the leader before it and not the leader after it publishes neither
\* paxos_heartbeat nor paxos_accept; and after any operation, a node that is not
\* the leader has its pulse timer stopped and no accept retry pending.
LeaderOnly ==
    [][\A n \in cluster.members :
          /\ (last'.n = n /\ ~node[n].proposer.leader /\ ~node'[n].proposer.leader)
                 => Published(last'.out, LeaderOnlyTypes) = {}
          /\ ~node'[n].proposer.leader
                 => ~node'[n].pulser_running /\ node'[n].accept_retry.state # "pending"]_vars

\* A leader has just lost leadership: its timers are quiet.
LeadershipLostQuiet ==
    \E n \in cluster.members :
        /\ last.n = n
        /\ Fired(last.ev, "onLeadershipLost", 0)
        /\ ~node[n].proposer.leader
        /\ ~node[n].pulser_running
        /\ node[n].accept_retry.state # "pending"

----------------------------------------------------------------------------
\* C19 (proposeValue proposes for slot n only): when proposeValue(n, v) returns, v
\* is the proposer's value of no instance other than n.
ProposedForSlotOnly ==
    [][\A n \in cluster.members :
          (last'.op = "proposeValue" /\ last'.n = n /\ last'.exc = None)
              => (node'[n].instance_num # last'.a => node'[n].proposer.value # last'.v)]_vars

----------------------------------------------------------------------------
\* The paxos_accept that the fired retry timer re-publishes: the first one it sends.
Retransmitted(out) ==
    IF Published(out, {"paxos_accept"}) = {} THEN {}
    ELSE {out[CHOOSE i \in Published(out, {"paxos_accept"}) :
                 \A j \in Published(out, {"paxos_accept"}) : i <= j]}

\* C20 (Retransmissions are identical): the paxos_accept re-published when the accept
\* retry timer fires carries the proposal_id and value the timer was set with and the
\* seq_num of a paxos_accept this node published before with that proposal_id and
\* value.
RetransmissionIdentical ==
    [][\A n \in cluster.members :
          (last'.op = "retry" /\ last'.n = n)
              => \A m \in Retransmitted(last'.out) :
                    /\ m.pid = node[n].accept_retry.pid
                    /\ m.value = node[n].accept_retry.value
                    /\ \E o \in msgs :
                          /\ o.type = "paxos_accept" /\ o.node_uid = n
                          /\ o.pid = m.pid /\ o.value = m.value
                          /\ o.seq_num = m.seq_num]_vars

====
